---------------------------- MODULE Spec2Model ----------------------------
(***************************************************************************)
(* Build-time tools of the dual display billboard firmware:                *)
(*   - the image encoder   (tools/png_to_splash_header_converter.py)       *)
(*   - the asset bundler   (tools/minify.py)                               *)
(*   - the build-info generator   (tools/generate_build_info.py)           *)
(*   - the splash-screen generator   (tools/generate_splash_screen.py)     *)
(* Texts are sequences of one-character strings; byte strings are          *)
(* sequences of integers 0..255.  The one non-ASCII character of the       *)
(* alphabet is written "U+00E9".                                           *)
(***************************************************************************)
EXTENDS Integers, Sequences, FiniteSets, TLC

VARIABLES
    px,         \* pixel probe: one RGB888 triple and its packed value
    css,        \* comment-stripping probe: a text and its stripped forms
    args,       \* image encoder: the command line of the invocation
    disk,       \* image encoder: the output header file on disk
    exit_code,  \* image encoder: exit status of the last invocation
    warned,     \* image encoder: last invocation printed the dimension warning
    eruns,      \* image encoder: invocations so far
    files,      \* asset bundler: os.listdir(src_path), with each file's content
    pos,        \* asset bundler: files of the listing the loop has taken up
    out,        \* asset bundler: what has been written to webcontent.h
    entries,    \* asset bundler: the module-level list `entries`
    calls,      \* asset bundler: the process_* calls made, in order
    bpc,        \* asset bundler: "start", "loop", "done" or "aborted"
    now,        \* asset bundler: the clock as last read, in seconds
    prev,       \* asset bundler: webcontent.h as the previous run left it
    bruns,      \* asset bundler: runs started so far
    counter_file, \* build info: build_info.json
    day,        \* build info: the date of the clock, as an index into Dates
    config_h,   \* build info: include/config.h
    built,      \* build info: what the last invocation gave and did
    pngs,       \* splash generator: the two PNG files of test_images/
    header_mtime, \* splash generator: modification time of include/splash_screen.h
    clock,      \* splash generator: the file system's clock
    srun        \* splash generator: what the last run found and did

vars == <<px, css, args, disk, exit_code, warned, eruns,
          files, pos, out, entries, calls, bpc, now, prev, bruns,
          counter_file, day, config_h, built,
          pngs, header_mtime, clock, srun>>

encVars == <<args, disk, exit_code, warned, eruns>>
bundlerVars == <<files, pos, out, entries, calls, bpc, now, prev, bruns>>
infoVars == <<counter_file, day, config_h, built>>
splashVars == <<pngs, header_mtime, clock, srun>>

None == "None"

----------------------------------------------------------------------------
(* Python integer operators *)

Shr(x, n) == x \div (2 ^ n)
Shl(x, n) == x * (2 ^ n)

RECURSIVE BitAnd(_, _)
BitAnd(a, b) ==
    IF a = 0 \/ b = 0 THEN 0
    ELSE ((a % 2) * (b % 2)) + 2 * BitAnd(a \div 2, b \div 2)

RECURSIVE BitOr(_, _)
BitOr(a, b) ==
    IF a = 0 THEN b
    ELSE IF b = 0 THEN a
    ELSE (IF (a % 2) + (b % 2) > 0 THEN 1 ELSE 0) + 2 * BitOr(a \div 2, b \div 2)

----------------------------------------------------------------------------
(* tools/png_to_splash_header_converter.py *)

rgb888_to_rgb565_wide_green(r, g, b) ==
    LET r5 == BitAnd(Shr(r, 3), 31)
        g6 == BitAnd(Shr(g, 3), 63)
        b5 == BitAnd(Shr(b, 3), 31)
    IN  BitOr(BitOr(Shl(r5, 11), Shl(g6, 5)), b5)

rgb888_to_rgb565(r, g, b) ==
    LET r5 == BitAnd(Shr(r, 3), 31)
        g6 == BitAnd(Shr(g, 2), 63)
        b5 == BitAnd(Shr(b, 3), 31)
    IN  BitOr(BitOr(Shl(r5, 11), Shl(g6, 5)), b5)

detect_display_type_no_rotation(width, height) ==
    IF width = 80 /\ height = 160 THEN "ST7735"
    ELSE IF width = 240 /\ height = 240 THEN "ST7789"
    ELSE IF width = 160 /\ height = 80 THEN "ST7735"
    ELSE "CUSTOM"

detect_display_type(width, height) ==
    IF width = 80 /\ height = 160 THEN "ST7735"
    ELSE IF width = 240 /\ height = 240 THEN "ST7789"
    ELSE IF width = 160 /\ height = 80 THEN "ST7735_ROTATED"
    ELSE "CUSTOM"

expected_dims(display_type) ==
    CASE display_type = "ST7735" -> {<<80, 160>>, <<160, 80>>}
      [] display_type = "ST7789" -> {<<240, 240>>}
      [] display_type = "ST7735_ROTATED" -> {<<160, 80>>}
      [] OTHER -> {}


(* Image.convert('RGB') of one pixel: RGBA drops alpha, L repeats the value *)
ConvertPixelRGB(mode, pixel) ==
    CASE mode = "RGB" -> pixel
      [] mode = "RGBA" -> <<pixel[1], pixel[2], pixel[3]>>
      [] OTHER -> <<pixel, pixel, pixel>>

(* a Python list: the sequence as a tuple *)
List(s) == SubSeq(s, 1, Len(s))

(* list(image.getdata()) after the conversion to RGB: row-major, one per pixel *)
getdata(image) ==
    LET data == List(image.data)
    IN  List([i \in 1..Len(data) |-> ConvertPixelRGB(image.mode, data[i])])

(* lines 118-125: the channels of one pixel of the list, then its packed value. *)
(* Every pixel of an RGB image is a 3-tuple, so the branch of line 123 is not   *)
(* taken after the conversion of lines 53-55.                                   *)
PackPixel(pixel) == rgb888_to_rgb565(pixel[1], pixel[2], pixel[3])

DimensionWarning(display_type, width, height) ==
    /\ expected_dims(display_type) # {}
    /\ <<width, height>> \notin expected_dims(display_type)

HexDigits ==
    <<"0", "1", "2", "3", "4", "5", "6", "7", "8", "9", "A", "B", "C", "D", "E", "F">>

(* f"0x{rgb565:04X}" for a value below 65536 *)
Hex04X(rgb565) ==
    <<"0", "x", HexDigits[((rgb565 \div 4096) % 16) + 1], HexDigits[((rgb565 \div 256) % 16) + 1],
      HexDigits[((rgb565 \div 16) % 16) + 1], HexDigits[(rgb565 % 16) + 1]>>

pixels_per_line == 8

(* lines 127-137: what the loop writes for pixel i (from 0) *)
WritePixel(i, rgb565, total_pixels) ==
    (IF i % pixels_per_line = 0 THEN <<" ", " ">> ELSE <<>>)
    \o Hex04X(rgb565)
    \o (IF i < total_pixels - 1 THEN <<",", " ">> ELSE <<>>)
    \o (IF (i + 1) % pixels_per_line = 0 THEN <<"\n">> ELSE <<>>)

(* lines 140-142: the array is closed *)
CloseArrayAfterBreak(total_pixels) == <<"\n", "}", ";", "\n", "\n">>

CloseArray(total_pixels) ==
    (IF total_pixels % pixels_per_line # 0 THEN <<"\n">> ELSE <<>>)
    \o <<"}", ";", "\n", "\n">>

TotalBytesOnePerPixel(total_pixels) == total_pixels

TotalBytes(total_pixels) == total_pixels * 2

open_append(file) == IF file.present THEN <<file>> ELSE <<>>

(* open(output_file, 'w'): what is left of the file's old content, nothing *)
open_w(file) == <<>>

(* convert_png_to_header: [ok, disk, warned].  `input` is the file named on  *)
(* the command line, `tag` the display type or None, `out_ok` whether        *)
(* open(output_file, 'w') succeeds, `file` the output file before the call.  *)
(* The written header keeps the fields its text is made of: `values` are the *)
(* packed pixels, `array` the characters each pass of the loop writes and    *)
(* `closing` those written after the loop, up to the include guard's end.    *)
convert_png_to_header(input, tag, out_ok, file) ==
    IF input.image.mode = "corrupt"
    THEN [ok |-> FALSE, disk |-> file, warned |-> FALSE]
    ELSE
      LET width == input.image.size[1]
          height == input.image.size[2]
          display_type == IF tag = None
                          THEN detect_display_type(width, height) ELSE tag
          warning == DimensionWarning(display_type, width, height)
          pixels == getdata(input.image)
          total_pixels == Len(pixels)
          total_bytes == TotalBytes(total_pixels)
      IN  IF ~out_ok
          THEN [ok |-> FALSE, disk |-> file, warned |-> warning]
          ELSE [ok |-> TRUE,
                warned |-> warning,
                disk |-> [present |-> TRUE,
                          kept |-> open_w(file),
                          source |-> input.name,
                          display_type |-> display_type,
                          comment_size |-> <<width, height, total_bytes>>,
                          SPLASH_WIDTH |-> width,
                          SPLASH_HEIGHT |-> height,
                          SPLASH_SIZE |-> total_bytes,
                          values |-> List([i \in 1..total_pixels |-> PackPixel(pixels[i])]),
                          array |-> List([i \in 1..total_pixels |->
                                     WritePixel(i - 1, PackPixel(pixels[i]), total_pixels)]),
                          closing |-> CloseArray(total_pixels)]]

(* argparse: choices of the optional display_type argument *)
TagChoices == {"ST7735", "ST7789", "CUSTOM"}

ExitStatusAlwaysZero(success) == 0

(* line 191 *)
ExitStatus(success) == IF success THEN 0 ELSE 1

(* main: [exit_code, disk, warned].  parse_args ends the process with status *)
(* 2 when the display type is not one of the choices.                        *)
main(a, file) ==
    IF a.tag # None /\ a.tag \notin TagChoices
    THEN [exit_code |-> 2, disk |-> file, warned |-> FALSE]
    ELSE IF ~a.input.exists
    THEN [exit_code |-> 1, disk |-> file, warned |-> FALSE]
    ELSE LET r == convert_png_to_header(a.input, a.tag, a.out_ok, file)
         IN  [exit_code |-> ExitStatus(r.ok), disk |-> r.disk, warned |-> r.warned]

----------------------------------------------------------------------------
(* Inputs of the image encoder *)

Palette == << <<255, 0, 0>>, <<0, 255, 0>>, <<0, 0, 255>>,
              <<18, 52, 86>>, <<255, 255, 255>>, <<0, 0, 0>> >>

SmallDims == {<<1, 1>>, <<2, 1>>, <<3, 3>>, <<4, 2>>, <<5, 2>>}
ProfileDims == {<<80, 160>>, <<160, 80>>, <<240, 240>>}

(* pixel i (from 0) of a stored image: the palette walked from `first` with a stride *)
StoredPixel(mode, first, stride, i) ==
    LET c == Palette[((first + i * stride) % Len(Palette)) + 1]
    IN  CASE mode = "RGB" -> c
          [] mode = "RGBA" -> c \o <<128>>
          [] OTHER -> c[2]

MakeImage(mode, size, first, stride) ==
    [mode |-> mode, size |-> size,
     data |-> List([i \in 1..(size[1] * size[2]) |-> StoredPixel(mode, first, stride, i - 1)])]

(* small images of every mode, and one blank image of each display's size *)
Images ==
    {MakeImage(m, d, 0, s) : m \in {"RGB", "RGBA", "L"}, d \in SmallDims, s \in {1, 2}}
    \cup {MakeImage("RGB", d, 5, 0) : d \in ProfileDims}

(* a file Image.open cannot read *)
Corrupt == [mode |-> "corrupt", size |-> <<0, 0>>, data |-> <<>>]

InputFiles ==
    {[name |-> "splash.png", exists |-> TRUE, image |-> im] : im \in Images}
    \cup {[name |-> "notes.txt", exists |-> TRUE, image |-> Corrupt],
          [name |-> "missing.png", exists |-> FALSE, image |-> Corrupt]}

TagArgs == {None, "ST7735", "ST7789", "CUSTOM", "ST7735_ROTATED"}

NoFile == [present |-> FALSE]

(* a header an earlier build left behind *)
StaleHeader ==
    [present |-> TRUE, kept |-> <<>>, source |-> "old.png", display_type |-> "ST7789",
     comment_size |-> <<1, 1, 2>>, SPLASH_WIDTH |-> 1, SPLASH_HEIGHT |-> 1,
     SPLASH_SIZE |-> 2, values |-> <<65535>>,
     array |-> << <<" ", " ", "0", "x", "F", "F", "F", "F">> >>,
     closing |-> <<"\n", "}", ";", "\n", "\n">>]

CommandLines ==
    [input : InputFiles, tag : TagArgs, out_ok : BOOLEAN]

MaxEncRuns == 2

IdleEncoder ==
    /\ args = [input |-> [name |-> "missing.png", exists |-> FALSE, image |-> Corrupt],
               tag |-> None, out_ok |-> TRUE]
    /\ disk = NoFile /\ exit_code = None /\ warned = FALSE /\ eruns = 0

IdlePixel == px = [r |-> 0, g |-> 0, b |-> 0, done |-> FALSE, rgb565 |-> 0]

IdleCss == css = [text |-> <<>>, done |-> FALSE, once |-> <<>>, twice |-> <<>>]

IdleBundler ==
    /\ files = <<>> /\ pos = 0 /\ out = <<>> /\ entries = <<>> /\ calls = <<>>
    /\ bpc = "start" /\ now = 0 /\ prev = <<>> /\ bruns = 0

NoCounterFile ==
    [kind |-> "absent", last_date |-> <<>>, daily_counter |-> 0,
     last_build |-> <<>>, build_timestamp |-> <<>>]

NoConfig == [present |-> FALSE, lines |-> <<>>]

NotBuilt ==
    [defines |-> [FIRMWARE_VERSION |-> <<>>, FIRMWARE_VERSION_FULL |-> <<>>,
                  BUILD_NUMBER |-> <<>>, BUILD_DATE |-> <<>>, BUILD_TYPE |-> <<>>,
                  BUILD_TIMESTAMP |-> <<>>, BUILD_ENVIRONMENT |-> <<>>,
                  DAILY_BUILD_COUNT |-> <<>>],
     done |-> FALSE, date_part |-> <<>>, loads |-> 0, saves |-> 0, saved |-> FALSE,
     limit_warning |-> FALSE, config_written |-> FALSE]

IdleInfo ==
    /\ counter_file = NoCounterFile /\ day = 1 /\ config_h = NoConfig
    /\ built = NotBuilt

NoPng == [exists |-> FALSE, mtime |-> 0, image |-> Corrupt]

NoRun ==
    [display_type |-> None, png |-> None, outcome |-> "none", reason |-> "none",
     invoked |-> FALSE]

IdleSplash ==
    /\ pngs = [ST7735 |-> NoPng, ST7789 |-> NoPng]
    /\ header_mtime = 0 /\ clock = 0 /\ srun = NoRun

(* One invocation of the converter's command line *)
EncoderRun ==
    /\ eruns < MaxEncRuns
    /\ LET r == main(args, disk)
       IN  /\ exit_code' = r.exit_code
           /\ disk' = r.disk
           /\ warned' = r.warned
    /\ eruns' = eruns + 1
    /\ UNCHANGED <<args, px, css, bundlerVars, infoVars, splashVars>>

InitEncoder ==
    /\ args \in CommandLines
    /\ disk \in {NoFile, StaleHeader}
    /\ exit_code = None /\ warned = FALSE /\ eruns = 0
    /\ IdlePixel /\ IdleCss /\ IdleBundler /\ IdleInfo /\ IdleSplash

NextEncoder == EncoderRun

SpecEncoder == InitEncoder /\ [][NextEncoder]_vars

(* The converter on images of every pixel count from 1 to MaxPixels *)
MaxPixels == 17

RowImages ==
    {MakeImage("RGB", <<n, 1>>, first, 1) : n \in 1..MaxPixels, first \in 0..(Len(Palette) - 1)}

InitArray ==
    /\ args \in [input : {[name |-> "splash.png", exists |-> TRUE, image |-> im] : im \in RowImages},
                 tag : {None}, out_ok : {TRUE}]
    /\ disk \in {NoFile, StaleHeader}
    /\ exit_code = None /\ warned = FALSE /\ eruns = 0
    /\ IdlePixel /\ IdleCss /\ IdleBundler /\ IdleInfo /\ IdleSplash

SpecArray == InitArray /\ [][NextEncoder]_vars

----------------------------------------------------------------------------
(* Python strings and bytes *)

(* the printable ASCII characters, code points 32..126 in order (the grave    *)
(* accent is written "U+0060")                                                *)
Ascii ==
    <<
       " ", "!", "\"", "#", "$", "%", "&", "'", "(", ")", "*", "+",
       ",", "-", ".", "/", "0", "1", "2", "3", "4", "5", "6", "7",
       "8", "9", ":", ";", "<", "=", ">", "?", "@", "A", "B", "C",
       "D", "E", "F", "G", "H", "I", "J", "K", "L", "M", "N", "O",
       "P", "Q", "R", "S", "T", "U", "V", "W", "X", "Y", "Z", "[",
       "\\", "]", "^", "_", "U+0060", "a", "b", "c", "d", "e", "f",
       "g", "h", "i", "j", "k", "l", "m", "n", "o", "p", "q", "r",
       "s", "t", "u", "v", "w", "x", "y", "z", "{", "|", "}", "~"
    >>

(* ord(c) of an ASCII character *)
Ord(c) ==
    CASE c = "\n" -> 10
      [] c = "\t" -> 9
      [] OTHER -> 31 + (CHOOSE i \in 1..Len(Ascii) : Ascii[i] = c)

(* c.encode('utf-8'): one byte for ASCII, two for U+00E9 *)
Utf8(c) == IF c = "U+00E9" THEN <<195, 169>> ELSE <<Ord(c)>>

RECURSIVE EncodeFrom(_, _)
EncodeFrom(s, i) ==
    IF i > Len(s) THEN <<>> ELSE Utf8(s[i]) \o EncodeFrom(s, i + 1)

(* s.encode('utf-8'), bytes(s, 'utf-8') *)
encode_utf8(s) == EncodeFrom(s, 1)

IsSpace(c) == c \in {" ", "\n", "\t"}

IsWord(c) == ~IsSpace(c) /\ c # "U+00E9" /\
             LET o == Ord(c)
             IN  (o >= 48 /\ o <= 57) \/ (o >= 65 /\ o <= 90)
                 \/ (o >= 97 /\ o <= 122) \/ o = 95 \/ o = 36

(* s[i:] and s[:i] with 1-based, inclusive positions *)
From(s, i) == SubSeq(s, i, Len(s))
Upto(s, i) == SubSeq(s, 1, i)

(* pat occurs in s at position i *)
At(s, pat, i) ==
    /\ i >= 1 /\ i + Len(pat) - 1 <= Len(s)
    /\ \A k \in 1..Len(pat) : s[i + k - 1] = pat[k]

(* least position >= from where pat occurs in s, or 0 *)
Find(s, pat, from) ==
    LET hits == {i \in from..(Len(s) - Len(pat) + 1) : At(s, pat, i)}
    IN  IF hits = {} THEN 0 ELSE CHOOSE i \in hits : \A j \in hits : i <= j

(* str.startswith, str.endswith *)
startswith(s, prefix) == At(s, prefix, 1)
endswith(s, suffix) == At(s, suffix, Len(s) - Len(suffix) + 1)

(* position of the first non-whitespace character at or after i (Len+1 if none) *)
RECURSIVE SkipSpace(_, _)
SkipSpace(s, i) ==
    IF i <= Len(s) /\ IsSpace(s[i]) THEN SkipSpace(s, i + 1) ELSE i

(* str.upper() *)
Upper(c) ==
    IF IsSpace(c) \/ c = "U+00E9" THEN c
    ELSE LET o == Ord(c) IN IF o >= 97 /\ o <= 122 THEN Ascii[o - 32 - 31] ELSE c

(* the low 16 and 32 bits of an unsigned integer, little-endian *)
LE16(n) == <<n % 256, (n \div 256) % 256>>
LE32(n) == <<n % 256, (n \div 256) % 256, (n \div 65536) % 256,
             (n \div 16777216) % 256>>

RECURSIVE SumFrom(_, _)
SumFrom(s, i) == IF i > Len(s) THEN 0 ELSE s[i] + SumFrom(s, i + 1)

----------------------------------------------------------------------------
(* tools/minify.py *)

sanitize_symbol_dots_only(name) ==
    [i \in 1..Len(name) |-> IF name[i] = "." THEN "_" ELSE name[i]]

sanitize_symbol(name) ==
    [i \in 1..Len(name) |-> IF name[i] \in {".", "-"} THEN "_" ELSE name[i]]

(* gzip.GzipFile(fileobj=buffer, mode='wb'): one RFC 1952 member.  The header *)
(* carries MTIME, which GzipFile takes from the clock when none is given; the  *)
(* deflate stream is written here as one stored block and the CRC-32 as a      *)
(* checksum of the data.                                                       *)
Deflate(data) == <<1>> \o LE16(Len(data)) \o LE16(65535 - Len(data)) \o data

Checksum(data) == SumFrom(data, 1)

gzip_compress(data, mtime) ==
    <<31, 139, 8, 0>> \o LE32(mtime) \o <<2, 255>> \o Deflate(data)
    \o LE32(Checksum(data)) \o LE32(Len(data))

bytes_per_line == 16

(* the loop over range(0, len(out_data), bytes_per_line): one chunk per line *)
FormatLines(out_data) ==
    LET n == Len(out_data)
        last(k) == IF k * bytes_per_line < n THEN k * bytes_per_line ELSE n
    IN  [k \in 1..((n + bytes_per_line - 1) \div bytes_per_line) |->
            SubSeq(out_data, (k - 1) * bytes_per_line + 1, last(k))]

(* "const uint8_t <array_name>[] = { <lines> };" *)
ArrayDeclaration(array_name, lines) ==
    [kind |-> "array", symbol |-> array_name, lines |-> lines]

(* '{ "<name>", <array_name>, <length> }' *)
IndexEntry(name, array_name, length) ==
    [filename |-> name, symbol |-> array_name, length |-> length]

EntryLengthOfText(s, out_data) == Len(s)

(* the length written into the entry: len(out_data) *)
EntryLength(s, out_data) == Len(out_data)

(* What a call gives back: the value returned (a str or a tuple), what was    *)
(* appended to `entries`, and how the payload was stored.                     *)
Returned(type, text, appended, stored) ==
    [raised |-> FALSE, type |-> type, text |-> text,
     appended |-> appended, stored |-> stored]

NoText == [kind |-> "none", symbol |-> <<>>, lines |-> <<>>]

(* open() or read() raising: OSError, UnicodeDecodeError *)
Raised ==
    [raised |-> TRUE, type |-> "none", text |-> NoText,
     appended |-> <<>>, stored |-> "none"]

string_to_c_array(s, name, compress, t) ==
    LET array_name == sanitize_symbol(name)
        out_data == IF compress THEN gzip_compress(encode_utf8(s), t)
                    ELSE encode_utf8(s)
    IN  Returned("str", ArrayDeclaration(array_name, FormatLines(out_data)),
                 <<IndexEntry(name, array_name, EntryLength(s, out_data))>>,
                 IF compress THEN "gzip" ELSE "plain")

binary_to_c_array(file, compress, t) ==
    IF ~file.readable THEN Raised
    ELSE
      LET array_name == sanitize_symbol(file.name)
          raw_data == file.content
          out_data == IF compress THEN gzip_compress(raw_data, t) ELSE raw_data
      IN  Returned("str", ArrayDeclaration(array_name, FormatLines(out_data)),
                   <<IndexEntry(file.name, array_name, EntryLength(raw_data, out_data))>>,
                   IF compress THEN "gzip" ELSE "plain")

(* re.sub(r'\s+', ' ', s): every whitespace run becomes one space *)
RECURSIVE CollapseSpace(_, _)
CollapseSpace(s, i) ==
    IF i > Len(s) THEN <<>>
    ELSE IF IsSpace(s[i]) THEN <<" ">> \o CollapseSpace(s, SkipSpace(s, i))
    ELSE <<s[i]>> \o CollapseSpace(s, i + 1)

(* str.strip() *)
RECURSIVE LastNonSpace(_, _)
LastNonSpace(s, i) ==
    IF i >= 1 /\ IsSpace(s[i]) THEN LastNonSpace(s, i - 1) ELSE i

strip(s) == SubSeq(s, SkipSpace(s, 1), LastNonSpace(s, Len(s)))

(* jsmin (third-party): whitespace goes, except one space between two        *)
(* identifier characters                                                      *)
RECURSIVE JsMinFrom(_, _)
JsMinFrom(s, i) ==
    IF i > Len(s) THEN <<>>
    ELSE IF IsSpace(s[i])
    THEN LET j == SkipSpace(s, i)
         IN  (IF i > 1 /\ j <= Len(s) /\ IsWord(s[i - 1]) /\ IsWord(s[j])
              THEN <<" ">> ELSE <<>>) \o JsMinFrom(s, j)
    ELSE <<s[i]>> \o JsMinFrom(s, i + 1)

jsmin(js) == JsMinFrom(js, 1)

(* re.sub(r'(<script[^>]*>)(.*?)(</script>)', ..., flags=re.DOTALL) *)
RECURSIVE MinifyScripts(_, _)
MinifyScripts(s, from) ==
    LET i == Find(s, <<"<", "s", "c", "r", "i", "p", "t">>, from)
        g == IF i = 0 THEN 0 ELSE Find(s, <<">">>, i + 7)
        e == IF g = 0 THEN 0
             ELSE Find(s, <<"<", "/", "s", "c", "r", "i", "p", "t", ">">>, g + 1)
    IN  IF e = 0 THEN From(s, from)
        ELSE SubSeq(s, from, g) \o jsmin(SubSeq(s, g + 1, e - 1))
             \o SubSeq(s, e, e + 8) \o MinifyScripts(s, e + 9)

(* htmlmin.minify(remove_comments=True) (third-party): comments go and       *)
(* whitespace runs become one space                                           *)
RECURSIVE RemoveHtmlComments(_, _)
RemoveHtmlComments(s, from) ==
    LET i == Find(s, <<"<", "!", "-", "-">>, from)
        e == IF i = 0 THEN 0 ELSE Find(s, <<"-", "-", ">">>, i + 4)
    IN  IF e = 0 THEN From(s, from)
        ELSE SubSeq(s, from, i - 1) \o RemoveHtmlComments(s, e + 3)

htmlmin_minify(content) == CollapseSpace(RemoveHtmlComments(content, 1), 1)

process_html_file(file, t) ==
    IF ~file.readable THEN Raised
    ELSE string_to_c_array(htmlmin_minify(MinifyScripts(file.content, 1)),
                           file.name, FALSE, t)

(* re.sub(r'^\s*/\*![\s\S]*?\*/\s*', '', content, count=1) *)
TrimLicense(content) ==
    LET i == SkipSpace(content, 1)
        j == IF At(content, <<"/", "*", "!">>, i)
             THEN Find(content, <<"*", "/">>, i + 3) ELSE 0
    IN  IF j = 0 THEN content ELSE From(content, SkipSpace(content, j + 2))

process_jquery_file(file, t) ==
    IF ~file.readable THEN Raised
    ELSE string_to_c_array(TrimLicense(file.content), file.name, TRUE, t)

(* re.sub(r'^/\*.*?\*/\s*', '', content, flags=re.DOTALL) *)
TrimBlockComment(content) ==
    LET j == IF At(content, <<"/", "*">>, 1)
             THEN Find(content, <<"*", "/">>, 3) ELSE 0
    IN  IF j = 0 THEN content ELSE From(content, SkipSpace(content, j + 2))

SourceMappingURL ==
    <<"s", "o", "u", "r", "c", "e", "M", "a", "p", "p", "i", "n", "g", "U", "R", "L", "=">>

(* r'//\s*#\s*sourceMappingURL=.*$' matches at i: the rest of the line must   *)
(* end the text, or stop at its final line break                              *)
SourceMapAt(s, i) ==
    /\ At(s, <<"/", "/">>, i)
    /\ LET a == SkipSpace(s, i + 2)
       IN  /\ At(s, <<"#">>, a)
           /\ LET b == SkipSpace(s, a + 1)
              IN  /\ At(s, SourceMappingURL, b)
                  /\ Find(s, <<"\n">>, b + Len(SourceMappingURL)) \in {0, Len(s)}

(* re.sub(r'//\s*#\s*sourceMappingURL=.*$', '', trimmed) *)
TrimSourceMap(s) ==
    LET hits == {i \in 1..Len(s) : SourceMapAt(s, i)}
    IN  IF hits = {} THEN s
        ELSE LET i == CHOOSE i \in hits : \A j \in hits : i <= j
             IN  Upto(s, i - 1) \o (IF s[Len(s)] = "\n" THEN <<"\n">> ELSE <<>>)

process_copyright_mapping_file(file, t) ==
    IF ~file.readable THEN Raised
    ELSE string_to_c_array(TrimSourceMap(TrimBlockComment(file.content)),
                           file.name, TRUE, t)

process_misc_file(file, t) ==
    IF ~file.readable THEN Raised
    ELSE string_to_c_array(file.content, file.name, TRUE, t)

(* The first /* ... */ at or after i: <<start, end>>, or <<0, 0>> *)
FirstComment(s, i) ==
    LET a == Find(s, <<"/", "*">>, i)
        b == IF a = 0 THEN 0 ELSE Find(s, <<"*", "/">>, a + 2)
    IN  IF b = 0 THEN <<0, 0>> ELSE <<a, b + 1>>

StripFirstOnlyFrom(s, i) ==
    LET m == FirstComment(s, i)
    IN  IF m[1] = 0 THEN From(s, i)
        ELSE SubSeq(s, i, m[1] - 1) \o From(s, m[2] + 1)

(* re.sub(r'/\*.*?\*/', '', content, flags=re.DOTALL) from position i on *)
RECURSIVE StripCommentsFrom(_, _)
StripCommentsFrom(s, i) ==
    LET m == FirstComment(s, i)
    IN  IF m[1] = 0 THEN From(s, i)
        ELSE SubSeq(s, i, m[1] - 1) \o StripCommentsFrom(s, m[2] + 1)

StripFirstCommentOnly(content) == StripFirstOnlyFrom(content, 1)

StripComments(content) == StripCommentsFrom(content, 1)

(* process_css_file returns the tuple (css_content, filename) and appends     *)
(* nothing to `entries`                                                       *)
process_css_file(file) ==
    IF ~file.readable THEN Raised
    ELSE
      LET content == strip(CollapseSpace(StripComments(file.content), 1))
          var_name == [i \in 1..Len(file.name) |-> Upper(sanitize_symbol(file.name)[i])]
      IN  Returned("tuple",
                   [kind |-> "string", symbol |-> var_name, lines |-> <<content>>],
                   <<>>, "none")

(* the branch of the loop body a file name takes (lines 258-279) *)
DispatchJqueryAsMisc(filename) ==
    IF endswith(filename, <<".", "h", "t", "m", "l">>) THEN "process_html_file"
    ELSE IF endswith(filename, <<".", "j", "s">>)
    THEN IF startswith(filename, <<"b", "o", "o", "t", "s", "t", "r", "a", "p">>)
            \/ startswith(filename, <<"p", "o", "p", "p", "e", "r">>)
         THEN "process_copyright_mapping_file"
         ELSE "process_misc_file"
    ELSE IF endswith(filename, <<".", "c", "s", "s">>)
    THEN IF startswith(filename, <<"b", "o", "o", "t", "s", "t", "r", "a", "p">>)
         THEN "process_copyright_mapping_file"
         ELSE "process_css_file"
    ELSE IF endswith(filename, <<".", "i", "c", "o">>)
            \/ endswith(filename, <<".", "j", "p", "g">>)
    THEN "binary_to_c_array"
    ELSE "none"

Dispatch(filename) ==
    IF endswith(filename, <<".", "h", "t", "m", "l">>) THEN "process_html_file"
    ELSE IF endswith(filename, <<".", "j", "s">>)
    THEN IF startswith(filename, <<"j", "q", "u", "e", "r", "y">>)
         THEN "process_jquery_file"
         ELSE IF startswith(filename, <<"b", "o", "o", "t", "s", "t", "r", "a", "p">>)
                 \/ startswith(filename, <<"p", "o", "p", "p", "e", "r">>)
         THEN "process_copyright_mapping_file"
         ELSE "process_misc_file"
    ELSE IF endswith(filename, <<".", "c", "s", "s">>)
    THEN IF startswith(filename, <<"b", "o", "o", "t", "s", "t", "r", "a", "p">>)
         THEN "process_copyright_mapping_file"
         ELSE "process_css_file"
    ELSE IF endswith(filename, <<".", "i", "c", "o">>)
            \/ endswith(filename, <<".", "j", "p", "g">>)
    THEN "binary_to_c_array"
    ELSE "none"

Call(fn, file, t) ==
    CASE fn = "process_html_file" -> process_html_file(file, t)
      [] fn = "process_jquery_file" -> process_jquery_file(file, t)
      [] fn = "process_copyright_mapping_file" -> process_copyright_mapping_file(file, t)
      [] fn = "process_misc_file" -> process_misc_file(file, t)
      [] fn = "process_css_file" -> process_css_file(file)
      [] OTHER -> binary_to_c_array(file, TRUE, t)

(* <returned value> + "\n": a str is extended, a tuple raises TypeError *)
PlusNewline(r) ==
    IF r.raised \/ r.type = "str" THEN r ELSE [r EXCEPT !.raised = TRUE]

AfterFileCarryOn(raised) == "loop"

(* nothing in the loop catches: an exception leaves the loop and the script *)
AfterFile(raised) == IF raised THEN "aborted" ELSE "loop"

(* make_index: the struct, then the entries joined by ",\n" *)
make_index(list) == [kind |-> "index", symbol |-> <<>>, lines |-> list]

generate_utility_functions == [kind |-> "accessors", symbol |-> <<>>, lines |-> <<>>]

Prologue == [kind |-> "prologue", symbol |-> <<>>, lines |-> <<>>]

MaxFiles == 2
MaxTime == 1
MaxRuns == 2

(* Files that may lie in the asset directory *)
AssetFiles == {
    [name |-> <<"i", "n", "d", "e", "x", ".", "h", "t", "m", "l">>,
     content |-> <<"<", "!", "-", "-", "c", "-", "-", ">", "<", "p", ">", "U+00E9", "<", "/", "p", ">", "\n", "<", "s", "c", "r", "i", "p", "t", ">", " ", "v", "a", "r", " ", " ", "x", " ", "=", " ", "1", " ", ";", " ", "<", "/", "s", "c", "r", "i", "p", "t", ">">>,
     readable |-> TRUE],
    [name |-> <<"e", "m", "p", "t", "y", ".", "h", "t", "m", "l">>,
     content |-> <<>>,
     readable |-> TRUE],
    [name |-> <<"j", "q", "u", "e", "r", "y", ".", "m", "i", "n", ".", "j", "s">>,
     content |-> <<"\n", "/", "*", "!", " ", "L", " ", "*", "/", "\n", "$", "(", "a", ")">>,
     readable |-> TRUE],
    [name |-> <<"b", "o", "o", "t", "s", "t", "r", "a", "p", ".", "m", "i", "n", ".", "j", "s">>,
     content |-> <<"/", "*", " ", "L", " ", "*", "/", "\n", "b", "(", ")", "\n", "/", "/", "#", " ", "s", "o", "u", "r", "c", "e", "M", "a", "p", "p", "i", "n", "g", "U", "R", "L", "=", "b", ".", "m", "a", "p", "\n">>,
     readable |-> TRUE],
    [name |-> <<"p", "o", "p", "p", "e", "r", ".", "m", "i", "n", ".", "j", "s">>,
     content |-> <<"p", "(", ")", "/", "/", "#", " ", "s", "o", "u", "r", "c", "e", "M", "a", "p", "p", "i", "n", "g", "U", "R", "L", "=", "p">>,
     readable |-> TRUE],
    [name |-> <<"a", "p", "p", ".", "j", "s">>,
     content |-> <<"v", "a", "r", " ", "x", "=", "1", ";">>,
     readable |-> TRUE],
    [name |-> <<"a", "p", "p", ".", "j", "s">>,
     content |-> <<"v", "a", "r", " ", "x", "=", "1", ";">>,
     readable |-> FALSE],
    [name |-> <<"e", "m", "p", "t", "y", ".", "j", "s">>,
     content |-> <<>>,
     readable |-> TRUE],
    [name |-> <<"a", "-", "b", ".", "j", "s">>,
     content |-> <<"x">>,
     readable |-> TRUE],
    [name |-> <<"a", "_", "b", ".", "j", "s">>,
     content |-> <<"y", "y">>,
     readable |-> TRUE],
    [name |-> <<"b", "o", "o", "t", "s", "t", "r", "a", "p", ".", "m", "i", "n", ".", "c", "s", "s">>,
     content |-> <<"/", "*", " ", "L", " ", "*", "/", " ", "a", "{", "}">>,
     readable |-> TRUE],
    [name |-> <<"p", "o", "p", "p", "e", "r", ".", "c", "s", "s">>,
     content |-> <<"p", "{", "}">>,
     readable |-> TRUE],
    [name |-> <<"s", "t", "y", "l", "e", ".", "c", "s", "s">>,
     content |-> <<"a", " ", "{", " ", "}", " ", "/", "*", " ", "c", " ", "*", "/", "\n">>,
     readable |-> TRUE],
    [name |-> <<"f", "a", "v", "i", "c", "o", "n", ".", "i", "c", "o">>,
     content |-> <<0, 0, 1, 0>>,
     readable |-> TRUE],
    [name |-> <<"l", "o", "g", "o", ".", "j", "p", "g">>,
     content |-> <<255, 216, 255>>,
     readable |-> TRUE],
    [name |-> <<"R", "E", "A", "D", "M", "E", ".", "m", "d">>,
     content |-> <<"#", " ", "r">>,
     readable |-> TRUE]}

(* lines 258-279 on each file that has a branch, at each reading of the   *)
(* clock: the call and the "\n" added to what it returns                  *)
Outcome ==
    [file \in {f \in AssetFiles : Dispatch(f.name) # "none"} |->
        [t \in 0..MaxTime |-> PlusNewline(Call(Dispatch(file.name), file, t))]]

(* lines 240-252: a fresh process (an empty `entries`), the old header is      *)
(* removed, the new one opened and its first two lines written                *)
BundlerStart ==
    /\ bpc \in {"start", "done", "aborted"}
    /\ bruns < MaxRuns
    /\ bruns' = bruns + 1
    /\ prev' = IF bruns = 0 THEN prev ELSE <<[done |-> bpc = "done", out |-> out]>>
    /\ out' = <<Prologue>>
    /\ entries' = <<>>
    /\ calls' = <<>>
    /\ pos' = 0
    /\ bpc' = "loop"
    /\ UNCHANGED <<files, now, px, css, encVars, infoVars, splashVars>>

(* lines 255-279: one pass of the loop.  gzip reads the clock, which has *)
(* not gone back since it was last read.                                 *)
BundlerStep ==
    /\ bpc = "loop"
    /\ pos < Len(files)
    /\ pos' = pos + 1
    /\ LET file == files[pos + 1]
           fn == Dispatch(file.name)
       IN  IF fn = "none"
           THEN UNCHANGED <<out, entries, calls, bpc, now>>
           ELSE \E t \in now..MaxTime :
                  LET r == Outcome[file][t]
                  IN  /\ entries' = entries \o r.appended
                      /\ out' = IF r.raised THEN out ELSE Append(out, r.text)
                      /\ calls' = Append(calls,
                                    [filename |-> file.name, fn |-> fn,
                                     stored |-> IF r.raised THEN "none" ELSE r.stored])
                      /\ bpc' = AfterFile(r.raised)
                      /\ now' = IF r.stored = "gzip" THEN t ELSE now
    /\ UNCHANGED <<files, prev, bruns, px, css, encVars, infoVars, splashVars>>

(* lines 281-283 *)
BundlerFinish ==
    /\ bpc = "loop"
    /\ pos = Len(files)
    /\ out' = out \o <<make_index(entries), generate_utility_functions>>
    /\ bpc' = "done"
    /\ UNCHANGED <<files, pos, entries, calls, now, prev, bruns, px, css, encVars, infoVars, splashVars>>

(* os.listdir: up to MaxFiles files, each name once, in any order *)
Listings ==
    UNION {{s \in [1..n -> AssetFiles] :
               \A i, j \in 1..n : i # j => s[i].name # s[j].name} : n \in 0..MaxFiles}

InitBundler ==
    /\ files \in Listings
    /\ pos = 0 /\ out = <<>> /\ entries = <<>> /\ calls = <<>>
    /\ bpc = "start" /\ now = 0 /\ prev = <<>> /\ bruns = 0
    /\ IdlePixel /\ IdleCss /\ IdleEncoder /\ IdleInfo /\ IdleSplash

NextBundler == BundlerStart \/ BundlerStep \/ BundlerFinish

SpecBundler == InitBundler /\ [][NextBundler]_vars

----------------------------------------------------------------------------
(* The comment-stripping step of process_css_file on its own *)

MaxCssLen == 8

CssTexts == UNION {[1..n -> {"/", "*", "a"}] : n \in 0..MaxCssLen}

CssStrip ==
    /\ ~css.done
    /\ css' = [css EXCEPT !.done = TRUE,
                          !.once = StripComments(css.text),
                          !.twice = StripComments(StripComments(css.text))]
    /\ UNCHANGED <<px, encVars, bundlerVars, infoVars, splashVars>>

InitCss ==
    /\ css \in {[text |-> t, done |-> FALSE, once |-> <<>>, twice |-> <<>>] :
                t \in CssTexts}
    /\ IdlePixel /\ IdleEncoder /\ IdleBundler /\ IdleInfo /\ IdleSplash

NextCss == CssStrip

SpecCss == InitCss /\ [][NextCss]_vars

----------------------------------------------------------------------------
(* The pixel encoder on its own *)

Byte == 0..255

(* every value of each channel, against low, middle and high values of the others *)
PixelSamples ==
    LET Others == {0, 85, 255}
    IN  (Byte \X Others \X Others) \cup (Others \X Byte \X Others)
        \cup (Others \X Others \X Byte)

PixelEncode ==
    /\ ~px.done
    /\ px' = [px EXCEPT !.done = TRUE, !.rgb565 = rgb888_to_rgb565(px.r, px.g, px.b)]
    /\ UNCHANGED <<css, encVars, bundlerVars, infoVars, splashVars>>

InitPixel ==
    /\ px \in {[r |-> p[1], g |-> p[2], b |-> p[3], done |-> FALSE, rgb565 |-> 0] :
               p \in PixelSamples}
    /\ IdleCss /\ IdleEncoder /\ IdleBundler /\ IdleInfo /\ IdleSplash

NextPixel == PixelEncode

SpecPixel == InitPixel /\ [][NextPixel]_vars

----------------------------------------------------------------------------
(* tools/generate_build_info.py *)

(* str.lower() *)
Lower(c) ==
    IF IsSpace(c) \/ c = "U+00E9" THEN c
    ELSE LET o == Ord(c) IN IF o >= 65 /\ o <= 90 THEN Ascii[o + 32 - 31] ELSE c

lower(s) == [i \in 1..Len(s) |-> Lower(s[i])]

(* `sub in s` *)
Contains(s, sub) == Find(s, sub, 1) # 0

Digits == <<"0", "1", "2", "3", "4", "5", "6", "7", "8", "9">>

(* str(n), the {n} of an f-string *)
RECURSIVE str(_)
str(n) ==
    IF n < 0 THEN <<"-">> \o str(0 - n)
    ELSE IF n < 10 THEN <<Digits[n + 1]>>
    ELSE str(n \div 10) \o <<Digits[(n % 10) + 1]>>

MaxDays == 2

(* now.strftime("%y%m%d") on day d of the clock: 250816, 250817, ... *)
strftime_ymd(d) == <<"2", "5", "0", "8">> \o str(15 + d)

(* _get_base_version *)
base_version == <<"0", ".", "9">>

(* lines 52-71: the production_build of platformio.ini, or the date and "0" *)
_get_production_build_number(ini, d) ==
    IF ini.readable /\ ini.production_build # <<>>
    THEN ini.production_build
    ELSE strftime_ymd(d) \o <<"0">>

EmptyDict ==
    [has |-> FALSE, last_date |-> <<>>, daily_counter |-> 0,
     last_build |-> <<>>, build_timestamp |-> <<>>]

(* lines 73-81: the JSON object of the file; {} when the file is absent or *)
(* cannot be parsed                                                         *)
_load_build_info(file) ==
    IF file.kind = "json"
    THEN [has |-> TRUE, last_date |-> file.last_date,
          daily_counter |-> file.daily_counter, last_build |-> file.last_build,
          build_timestamp |-> file.build_timestamp]
    ELSE EmptyDict

(* lines 83-89: the file after the call; it stays as it was when it cannot  *)
(* be opened for writing                                                    *)
_save_build_info(build_info, save_ok, file) ==
    IF save_ok
    THEN [kind |-> "json", last_date |-> build_info.last_date,
          daily_counter |-> build_info.daily_counter,
          last_build |-> build_info.last_build,
          build_timestamp |-> build_info.build_timestamp]
    ELSE file

IsProductionCaseSensitive(env_name) == Contains(env_name, <<"p", "r", "o", "d", "u", "c", "t", "i", "o", "n">>)

(* line 99: "production" in env_name.lower() *)
IsProduction(env_name) == Contains(lower(env_name), <<"p", "r", "o", "d", "u", "c", "t", "i", "o", "n">>)

(* lines 158-164 *)
BuildType(env_name) ==
    IF Contains(lower(env_name), <<"d", "e", "b", "u", "g">>) THEN <<"d", "e", "b", "u", "g">>
    ELSE IF Contains(lower(env_name), <<"p", "r", "o", "d", "u", "c", "t", "i", "o", "n">>) THEN <<"p", "r", "o", "d", "u", "c", "t", "i", "o", "n">>
    ELSE <<"l", "a", "t", "e", "s", "t">>

(* PIOENV of the build *)
EnvNames == {<<"d", "e", "b", "u", "g">>, <<"p", "r", "o", "d", "u", "c", "t", "i", "o", "n">>, <<"e", "s", "p", "3", "2", "d", "e", "v">>, <<"P", "r", "o", "d", "u", "c", "t", "i", "o", "n", "-", "D", "e", "b", "u", "g">>}

(* what lines 99 and 158-164 make of each environment name *)
EnvKind ==
    [env_name \in EnvNames |->
        [production |-> IsProduction(env_name), build_type |-> BuildType(env_name)]]

CapAtTen(daily_counter) == IF daily_counter > 10 THEN 10 ELSE daily_counter

(* lines 124-127 *)
Cap(daily_counter) == IF daily_counter > 9 THEN 9 ELSE daily_counter

(* lines 91-141, on day d with build_info.json being `file` *)
_generate_build_number(env_name, ini, d, file, save_ok) ==
    IF EnvKind[env_name].production
    THEN [build_number |-> _get_production_build_number(ini, d),
          daily_counter |-> 0, counter_file |-> file, date_part |-> <<>>,
          loads |-> 0, saves |-> 0, saved |-> FALSE, limit_warning |-> FALSE]
    ELSE
      LET date_part == strftime_ymd(d)
          build_info == _load_build_info(file)
          last_date == IF build_info.has THEN build_info.last_date ELSE <<>>
          stored == IF build_info.has THEN build_info.daily_counter ELSE 0
          counted == IF last_date # date_part THEN 0 ELSE stored + 1
          daily_counter == Cap(counted)
          build_number == date_part \o str(daily_counter)
          updated == [has |-> TRUE, last_date |-> date_part,
                      daily_counter |-> daily_counter,
                      last_build |-> build_number,
                      build_timestamp |-> date_part]
      IN  [build_number |-> build_number, daily_counter |-> daily_counter,
           counter_file |-> _save_build_info(updated, save_ok, file),
           date_part |-> date_part,
           loads |-> 1, saves |-> 1, saved |-> save_ok,
           limit_warning |-> counted > 9]

(* re.sub(r'#define <name> "[^"]*"', '#define <name> "<value>"', content) *)
SubDefine(lines, name, value) ==
    [i \in 1..Len(lines) |->
        IF lines[i].name = name THEN [lines[i] EXCEPT !.value = value] ELSE lines[i]]

(* re.sub(r'#define BUILD_TYPE "debug"', '#define BUILD_TYPE "<build_type>"', content) *)
SubBuildType(lines, build_type) ==
    [i \in 1..Len(lines) |->
        IF lines[i].name = "BUILD_TYPE" /\ lines[i].value = <<"d", "e", "b", "u", "g">>
        THEN [lines[i] EXCEPT !.value = build_type] ELSE lines[i]]

(* lines 191-233: [config, written]; config.h stays as it was when it cannot *)
(* be read or cannot be opened for writing                                   *)
_update_config_header(config, version, build_type, build_number, cfg_ok) ==
    IF ~config.present \/ ~cfg_ok
    THEN [config |-> config, written |-> FALSE]
    ELSE [config |-> [present |-> TRUE,
                      lines |-> SubBuildType(
                                  SubDefine(SubDefine(config.lines, "BUILD_DATE", build_number),
                                            "FIRMWARE_VERSION", version),
                                  build_type)],
          written |-> TRUE]

(* lines 143-189: the invocation starts on day d and reads the clock again, *)
(* on day d2, for BUILD_DATE and BUILD_TIMESTAMP (of which the date is kept) *)
generate(env_name, ini, d, d2, file, save_ok, config, cfg_ok) ==
    LET g == _generate_build_number(env_name, ini, d, file, save_ok)
        full_version == <<"v">> \o base_version \o <<"-", "b", "u", "i", "l", "d", ".">> \o g.build_number
        version_short == <<"v">> \o base_version
        build_date == strftime_ymd(d2)
        build_type == EnvKind[env_name].build_type
        u == _update_config_header(config, version_short, build_type, g.build_number, cfg_ok)
    IN  [counter_file |-> g.counter_file,
         config_h |-> u.config,
         built |-> [defines |-> [FIRMWARE_VERSION |-> version_short,
                                 FIRMWARE_VERSION_FULL |-> full_version,
                                 BUILD_NUMBER |-> g.build_number,
                                 BUILD_DATE |-> build_date,
                                 BUILD_TYPE |-> build_type,
                                 BUILD_TIMESTAMP |-> build_date,
                                 BUILD_ENVIRONMENT |-> env_name,
                                 DAILY_BUILD_COUNT |-> str(g.daily_counter)],
                    done |-> TRUE, date_part |-> g.date_part,
                    loads |-> g.loads, saves |-> g.saves, saved |-> g.saved,
                    limit_warning |-> g.limit_warning,
                    config_written |-> u.written]]

(* platformio.ini: with a production_build, or unreadable *)
PlatformioInis ==
    {[readable |-> TRUE, production_build |-> <<"2", "5", "0", "8", "1", "5", "0">>],
     [readable |-> FALSE, production_build |-> <<>>]}

(* include/config.h as the repository ships it *)
ShippedConfig ==
    [present |-> TRUE,
     lines |-> <<[name |-> "FIRMWARE_VERSION", value |-> <<"v", "0", ".", "0">>],
                 [name |-> "BUILD_DATE", value |-> <<"0", "0", "0", "0", "0", "0", "0">>],
                 [name |-> "BUILD_TYPE", value |-> <<"d", "e", "b", "u", "g">>]>>]

(* build_info.json before the first invocation: absent, not JSON, or left *)
(* by a build of an earlier date                                           *)
CounterFiles ==
    {NoCounterFile,
     [NoCounterFile EXCEPT !.kind = "corrupt"],
     [kind |-> "json", last_date |-> <<"2", "5", "0", "8", "0", "1">>, daily_counter |-> 9,
      last_build |-> <<"2", "5", "0", "8", "0", "1", "9">>, build_timestamp |-> <<"2", "5", "0", "8", "0", "1">>]}

(* generate_build_info: the pre-action of one build *)
GenerateBuildInfo ==
    \E env_name \in EnvNames, ini \in PlatformioInis, save_ok \in BOOLEAN,
       cfg_ok \in BOOLEAN, d2 \in {day, day + 1} \cap 1..MaxDays :
        LET r == generate(env_name, ini, day, d2, counter_file, save_ok, config_h, cfg_ok)
        IN  /\ counter_file' = r.counter_file
            /\ config_h' = r.config_h
            /\ built' = r.built
            /\ day' = d2
            /\ UNCHANGED <<px, css, encVars, bundlerVars, splashVars>>

(* the date changes between two builds *)
Midnight ==
    /\ day < MaxDays
    /\ day' = day + 1
    /\ UNCHANGED <<counter_file, config_h, built, px, css, encVars,
                   bundlerVars, splashVars>>

InitInfo ==
    /\ counter_file \in CounterFiles
    /\ day = 1
    /\ config_h \in {ShippedConfig, NoConfig}
    /\ built = NotBuilt
    /\ IdlePixel /\ IdleCss /\ IdleEncoder /\ IdleBundler /\ IdleSplash

NextInfo == GenerateBuildInfo \/ Midnight

SpecInfo == InitInfo /\ [][NextInfo]_vars

----------------------------------------------------------------------------
(* tools/generate_splash_screen.py *)

(* the characters of the display types and file names written into a header *)
Chars(s) ==
    CASE s = "ST7735" -> <<"S", "T", "7", "7", "3", "5">>
      [] s = "ST7789" -> <<"S", "T", "7", "7", "8", "9">>
      [] s = "ST7735_ROTATED" -> <<"S", "T", "7", "7", "3", "5", "_", "R", "O", "T", "A", "T", "E", "D">>
      [] s = "CUSTOM" -> <<"C", "U", "S", "T", "O", "M">>
      [] s = "splash_screen_80X160.png" -> <<"s", "p", "l", "a", "s", "h", "_", "s", "c", "r", "e", "e", "n", "_",
      "8", "0", "X", "1", "6", "0", ".", "p", "n", "g">>
      [] s = "splash_screen_240X240.png" -> <<"s", "p", "l", "a", "s", "h", "_", "s", "c", "r", "e", "e", "n", "_",
      "2", "4", "0", "X", "2", "4", "0", ".", "p", "n", "g">>
      [] s = "old.png" -> <<"o", "l", "d", ".", "p", "n", "g">>
      [] OTHER -> <<"s", "p", "l", "a", "s", "h", ".", "p", "n", "g">>

(* the head of a written header, lines 91-98 of the converter; the guards,  *)
(* the dimensions and the array follow it                                   *)
HeaderComment(file) ==
    <<"/", "*", "\n", " ", "*", " ", "S", "p", "l", "a", "s", "h", " ", "s",
      "c", "r", "e", "e", "n", " ", "c", "o", "l", "o", "r", " ", "b",
      "i", "t", "m", "a", "p", " ", "h", "e", "a", "d", "e", "r", " ",
      "f", "i", "l", "e", "\n", " ", "*", " ", "G", "e", "n", "e", "r",
      "a", "t", "e", "d", " ", "f", "r", "o", "m", " ">>
    \o Chars(file.source)
    \o <<"\n", " ", "*", " ", "T", "a", "r", "g", "e", "t", " ", "d", "i", "s",
      "p", "l", "a", "y", ":", " ">>
    \o Chars(file.display_type)
    \o <<"\n", " ", "*", " ", "I", "m", "a", "g", "e", " ", "s", "i", "z", "e",
      ":", " ">>
    \o str(file.comment_size[1]) \o <<"x">> \o str(file.comment_size[2])
    \o <<" ", "p", "i", "x", "e", "l", "s", "\n", " ", "*", " ", "R", "G", "B",
      "5", "6", "5", " ", "c", "o", "l", "o", "r", " ", "b", "i", "t",
      "m", "a", "p", " ", "(">>
    \o str(file.comment_size[1]) \o <<"x">> \o str(file.comment_size[2])
    \o <<",", " ">> \o str(file.comment_size[3])
    \o <<" ", "b", "y", "t", "e", "s", ")", "\n", " ", "*", " ", "G", "e", "n",
      "e", "r", "a", "t", "e", "d", " ", "w", "i", "t", "h", " ", "p",
      "n", "g", "_", "t", "o", "_", "s", "p", "l", "a", "s", "h", "_",
      "h", "e", "a", "d", "e", "r", "_", "c", "o", "n", "v", "e", "r",
      "t", "e", "r", ".", "p", "y", "\n", " ", "*", "/", "\n", "\n">>

(* f.read(500) *)
read_500(text) == SubSeq(text, 1, IF Len(text) < 500 THEN Len(text) ELSE 500)

(* lines 11-31: PIOENV first, then the command line, then the default *)
RECURSIVE FromArgv(_, _)
FromArgv(argv, k) ==
    IF k > Len(argv) THEN "ST7735"
    ELSE IF Contains(argv[k], <<"D", "I", "S", "P", "L", "A", "Y", "_", "T", "Y", "P", "E", "_", "S",
      "T", "7", "7", "8", "9">>) THEN "ST7789"
    ELSE IF Contains(argv[k], <<"D", "I", "S", "P", "L", "A", "Y", "_", "T", "Y", "P", "E", "_", "S",
      "T", "7", "7", "3", "5">>) THEN "ST7735"
    ELSE FromArgv(argv, k + 1)

detect_build_environment(build) ==
    IF Contains(lower(build.pioenv), <<"s", "t", "7", "7", "8", "9">>) THEN "ST7789"
    ELSE IF Contains(lower(build.pioenv), <<"s", "t", "7", "7", "3", "5">>) THEN "ST7735"
    ELSE FromArgv(build.argv, 1)

(* lines 77-80 *)
PngOf(display_type) ==
    IF display_type = "ST7789" THEN "splash_screen_240X240.png"
    ELSE "splash_screen_80X160.png"

(* lines 33-63: [is_current, reason] *)
check_existing_splash_screen(file, mtime, png, png_filename, display_type) ==
    IF ~file.present THEN [is_current |-> FALSE, reason |-> "Output file doesn't exist"]
    ELSE
      LET content == read_500(HeaderComment(file))
      IN  IF ~Contains(content, <<"G", "e", "n", "e", "r", "a", "t", "e", "d", " ", "f", "r", "o", "m",
      " ">> \o Chars(png_filename))
          THEN [is_current |-> FALSE, reason |-> "Generated from different source"]
          ELSE IF ~Contains(content, <<"T", "a", "r", "g", "e", "t", " ", "d", "i", "s", "p", "l", "a", "y",
      ":", " ">> \o Chars(display_type))
          THEN [is_current |-> FALSE, reason |-> "Generated for different display type"]
          ELSE IF png.mtime > mtime
          THEN [is_current |-> FALSE, reason |-> "PNG file is newer than header file"]
          ELSE [is_current |-> TRUE, reason |-> "Existing file is up to date"]

(* the environments of a build: PIOENV and the command line *)
Builds ==
    {[pioenv |-> <<"e", "s", "p", "3", "2", "-", "s", "t", "7", "7", "3", "5", "-", "d",
      "e", "b", "u", "g">>, argv |-> <<>>],
     [pioenv |-> <<"E", "S", "P", "3", "2", "-", "S", "T", "7", "7", "8", "9">>, argv |-> <<>>],
     [pioenv |-> <<"n", "a", "t", "i", "v", "e">>, argv |-> <<<<"-", "D", "D", "I", "S", "P", "L", "A", "Y", "_", "T", "Y", "P", "E",
      "_", "S", "T", "7", "7", "8", "9">>>>],
     [pioenv |-> <<>>, argv |-> <<<<"p", "i", "o">>, <<"r", "u", "n">>>>]}

(* the display type detected for each build *)
Detected == [build \in Builds |-> detect_build_environment(build)]

(* the PNG files test_images/ may hold for each display type *)
PngImages ==
    [ST7735 |-> {MakeImage("RGB", <<2, 1>>, 0, 1)},
     ST7789 |-> {MakeImage("RGB", <<1, 1>>, 0, 1), Corrupt}]

(* a header the converter wrote when run by hand, with no display type     *)
(* given, on the ST7735 image when that was 160 pixels wide and 80 high      *)
HandMadeHeader ==
    main([input |-> [name |-> "splash_screen_80X160.png", exists |-> TRUE,
                     image |-> MakeImage("RGB", <<160, 80>>, 5, 0)],
          tag |-> None, out_ok |-> TRUE], NoFile).disk

(* lines 76-120 of the generator for the display type line 73 detected, run *)
(* at time `t` of the file system with the header `file` modified at         *)
(* `mtime`; the converter is run as the subprocess of lines 106-108          *)
generate_splash_screen(display_type, images, file, mtime, t, out_ok) ==
    LET png_file == PngOf(display_type)
        png == images[display_type]
        check == check_existing_splash_screen(file, mtime, png, png_file, display_type)
        command == [input |-> [name |-> png_file, exists |-> TRUE, image |-> png.image],
                    tag |-> display_type, out_ok |-> out_ok]
        converter == main(command, file)
        run(outcome, reason, invoked) ==
            [display_type |-> display_type, png |-> png_file, outcome |-> outcome,
             reason |-> reason, invoked |-> invoked]
    IN  IF ~png.exists
        THEN [run |-> run("exit 1", "PNG file not found", FALSE), invoked |-> FALSE,
              disk |-> file, mtime |-> mtime, command |-> command, exit_code |-> 0,
              warned |-> FALSE]
        ELSE IF check.is_current
        THEN [run |-> run("skipped", check.reason, FALSE), invoked |-> FALSE,
              disk |-> file, mtime |-> mtime, command |-> command, exit_code |-> 0,
              warned |-> FALSE]
        ELSE [run |-> run(IF converter.exit_code = 0 THEN "converted" ELSE "exit 1",
                          check.reason, TRUE),
              invoked |-> TRUE,
              disk |-> converter.disk,
              mtime |-> IF converter.exit_code = 0 THEN t ELSE mtime,
              command |-> command, exit_code |-> converter.exit_code,
              warned |-> converter.warned]

MaxClock == 1

(* one build runs the generator (the converter's runs are not counted) *)
SplashRun ==
    \E display_type \in {Detected[build] : build \in Builds}, out_ok \in BOOLEAN :
        LET r == generate_splash_screen(display_type, pngs, disk, header_mtime, clock, out_ok)
        IN  /\ srun' = r.run
            /\ disk' = r.disk
            /\ header_mtime' = r.mtime
            /\ args' = IF r.invoked THEN r.command ELSE args
            /\ exit_code' = IF r.invoked THEN r.exit_code ELSE exit_code
            /\ warned' = IF r.invoked THEN r.warned ELSE warned
            /\ UNCHANGED <<pngs, clock, eruns, px, css, bundlerVars, infoVars>>

(* a PNG file is put in place, replaced or removed *)
EditPng ==
    \E t \in {"ST7735", "ST7789"} :
        \E file \in {[exists |-> TRUE, mtime |-> clock, image |-> im] : im \in PngImages[t]}
                    \cup {NoPng} :
            /\ pngs' = [pngs EXCEPT ![t] = file]
            /\ UNCHANGED <<header_mtime, clock, srun, encVars, px, css, bundlerVars, infoVars>>

ClockTick ==
    /\ clock < MaxClock
    /\ clock' = clock + 1
    /\ UNCHANGED <<pngs, header_mtime, srun, encVars, px, css, bundlerVars, infoVars>>

InitSplash ==
    /\ pngs \in [ST7735 : {[exists |-> TRUE, mtime |-> 0, image |-> im] : im \in PngImages.ST7735}
                          \cup {NoPng},
                 ST7789 : {[exists |-> TRUE, mtime |-> 0, image |-> im] : im \in PngImages.ST7789}
                          \cup {NoPng}]
    /\ disk \in {NoFile, StaleHeader, HandMadeHeader}
    /\ header_mtime = 0 /\ clock = 0 /\ srun = NoRun
    /\ args = [input |-> [name |-> "missing.png", exists |-> FALSE, image |-> Corrupt],
               tag |-> None, out_ok |-> TRUE]
    /\ exit_code = None /\ warned = FALSE /\ eruns = 0
    /\ IdlePixel /\ IdleCss /\ IdleBundler /\ IdleInfo

NextSplash == SplashRun \/ EditPng \/ ClockTick

SpecSplash == InitSplash /\ [][NextSplash]_vars

----------------------------------------------------------------------------
(* Image encoder: properties *)

Converted == eruns > 0 /\ exit_code = 0

ImageW == args.input.image.size[1]
ImageH == args.input.image.size[2]

(* C1: for every pixel (r,g,b) with channels in 0..255 the packed value is   *)
(* (r>>3)<<11 | (g>>2)<<5 | (b>>3), and it lies within 0..65535.             *)
C1_PackedValue ==
    px.done =>
        /\ px.rgb565 = BitOr(BitOr(Shl(Shr(px.r, 3), 11), Shl(Shr(px.g, 2), 5)),
                             Shr(px.b, 3))
        /\ px.rgb565 \in 0..65535

C1_Witness ==
    /\ px.done /\ px.r = 255 /\ px.g = 85 /\ px.b = 255
    /\ px.rgb565 = 63488 + 672 + 31

(* C6 as stated: exit code 1 exactly when the input file is missing or the   *)
(* conversion raises, and exit code 0 in every other case.                   *)
ConversionRaises ==
    args.input.exists /\ (args.input.image.mode = "corrupt" \/ ~args.out_ok)

C6_ExitOneOrZero ==
    eruns > 0 =>
        /\ (exit_code = 1) <=> (~args.input.exists \/ ConversionRaises)
        /\ exit_code # 1 => exit_code = 0

(* C6, amended: a command line the argument parser rejects ends with status  *)
(* 2; for an accepted one the exit code is 1 exactly when the input file is  *)
(* missing or the conversion raises, and 0 otherwise; a dimension mismatch   *)
(* only warns, and the header is still written with exit code 0.             *)
C6_ExitCodes ==
    eruns > 0 =>
        IF args.tag # None /\ args.tag \notin {"ST7735", "ST7789", "CUSTOM"}
        THEN exit_code = 2
        ELSE /\ (exit_code = 1) <=> (~args.input.exists \/ ConversionRaises)
             /\ exit_code # 1 => exit_code = 0
             /\ (warned /\ args.out_ok) =>
                    /\ exit_code = 0
                    /\ disk.present /\ disk.source = args.input.name
                    /\ disk.SPLASH_WIDTH = ImageW

C6_Witness ==
    /\ eruns > 0 /\ warned /\ exit_code = 0
    /\ args.tag = "ST7789" /\ args.input.image.size = <<2, 1>>
    /\ disk.present /\ disk.source = "splash.png" /\ disk.values = <<63488, 2016>>

(* C7: a W x H image converted successfully gives W*H array values, the      *)
(* macros SPLASH_WIDTH = W and SPLASH_HEIGHT = H, and SPLASH_SIZE = 2*W*H.   *)
C7_SizeLaw ==
    Converted =>
        /\ Len(disk.values) = ImageW * ImageH
        /\ disk.SPLASH_WIDTH = ImageW
        /\ disk.SPLASH_HEIGHT = ImageH
        /\ disk.SPLASH_SIZE = 2 * ImageW * ImageH

C7_Witness ==
    /\ Converted /\ args.input.image.size = <<5, 2>>
    /\ Len(disk.values) = 10 /\ disk.SPLASH_SIZE = 20

(* C8: without a display tag (80,160) gives ST7735, (240,240) ST7789,        *)
(* (160,80) ST7735_ROTATED and any other size CUSTOM; with the CUSTOM tag    *)
(* no dimension warning is emitted whatever the image's size.                *)
C8_TagOfSize ==
    LET size == args.input.image.size
        auto == CASE size = <<80, 160>> -> "ST7735"
                  [] size = <<240, 240>> -> "ST7789"
                  [] size = <<160, 80>> -> "ST7735_ROTATED"
                  [] OTHER -> "CUSTOM"
        tag == IF args.tag = None THEN auto ELSE args.tag
    IN  (eruns > 0 /\ args.input.exists /\ args.input.image.mode # "corrupt"
         /\ args.tag \in {None, "CUSTOM"}) =>
            /\ exit_code = 0 => disk.display_type = tag
            /\ tag = "CUSTOM" => ~warned

C8_Witness ==
    /\ Converted /\ args.tag = None /\ args.input.image.size = <<160, 80>>
    /\ disk.display_type = "ST7735_ROTATED" /\ ~warned

(* C11: a second run of the encoder on the same image with the same tag     *)
(* leaves the header byte for byte as the first run wrote it, and what a run  *)
(* writes does not depend on the header being there before or not.            *)
C11_SameHeaderTwice ==
    /\ [](Converted => disk = main(args, NoFile).disk)
    /\ [][(Converted /\ Converted') => disk' = disk]_vars

C11_Witness ==
    /\ eruns = 2 /\ Converted /\ disk.present
    /\ disk.source = "splash.png" /\ disk.kept = <<>>
    /\ Len(disk.values) = 9

(* the characters of the array literal: the passes of the loop, then the close *)
RECURSIVE Flatten(_, _)
Flatten(parts, k) ==
    IF k > Len(parts) THEN <<>> ELSE parts[k] \o Flatten(parts, k + 1)

ArrayText == Flatten(disk.array, 1) \o disk.closing

Occurrences(text, c) == Cardinality({p \in 1..Len(text) : text[p] = c})

(* C12: for every pixel count N >= 1 the array literal holds the N values,  *)
(* 8 on every line but possibly the last, which holds 1 to 8; consecutive    *)
(* values have one comma between them; the last value has no comma after it  *)
(* and exactly one line break stands between it and the closing brace.       *)
(* (Only a value has an "x" in it: `starts` is where the values begin.)      *)
C12_ArrayLayout ==
    Converted =>
        LET N == Len(disk.values)
            text == ArrayText
            starts == {p \in 1..(Len(text) - 1) : text[p + 1] = "x"}
            start(k) == CHOOSE p \in starts : Cardinality({q \in starts : q <= p}) = k
            brace == CHOOSE p \in 1..Len(text) : text[p] = "}"
        IN  /\ N = ImageW * ImageH
            /\ Cardinality(starts) = N
            /\ \A k \in 1..N :
                  SubSeq(text, start(k), start(k) + 5) = Hex04X(disk.values[k])
            /\ \A k \in 1..(N - 1) :
                  LET gap == SubSeq(text, start(k) + 6, start(k + 1) - 1)
                  IN  /\ Occurrences(gap, ",") = 1
                      /\ Occurrences(gap, "\n") = (IF k % 8 = 0 THEN 1 ELSE 0)
                      /\ \A p \in 1..Len(gap) : gap[p] \in {",", " ", "\n"}
            /\ SubSeq(text, start(N) + 6, brace - 1) = <<"\n">>

C12_Witness ==
    /\ Converted /\ Len(disk.values) = 16
    /\ Len(disk.array[8]) = 9 /\ Len(disk.array[16]) = 7
    /\ disk.closing = <<"}", ";", "\n", "\n">>

----------------------------------------------------------------------------
(* Asset bundler: properties *)

IsArray(d) == d.kind = "array"
IsDeclaration(d) == d.kind \in {"array", "string"}

(* the byte array declarations written so far, in order *)
Arrays == SelectSeq(out, IsArray)
Declarations == SelectSeq(out, IsDeclaration)

(* number of hex literals between the braces of a declaration *)
RECURSIVE CountBytes(_, _)
CountBytes(lines, k) ==
    IF k > Len(lines) THEN 0 ELSE Len(lines[k]) + CountBytes(lines, k + 1)

HasSuffix(name, suffixes) == \E x \in suffixes : endswith(name, x)
HasPrefix(name, prefixes) == \E x \in prefixes : startswith(name, x)

Recognised(file) ==
    HasSuffix(file.name, {<<".", "h", "t", "m", "l">>, <<".", "j", "s">>, <<".", "c", "s", "s">>, <<".", "i", "c", "o">>, <<".", "j", "p", "g">>})

(* the files the loop has taken up, and the recognised ones among them *)
TakenUp == SubSeq(files, 1, pos)
TakenUpRecognised == SelectSeq(TakenUp, Recognised)

AllReadable == \A k \in 1..Len(files) : files[k].readable

(* C2: after a run, every entry of the emitted index declares the number of  *)
(* bytes in the body of the array emitted for it, compressed or not, the      *)
(* empty payload included.                                                    *)
C2_LengthMatchesBody ==
    /\ \A i \in 1..Len(entries) :
          /\ i <= Len(Arrays)
          /\ Arrays[i].symbol = entries[i].symbol
          /\ CountBytes(Arrays[i].lines, 1) = entries[i].length
    /\ bpc = "done" =>
          /\ out[Len(out) - 1].kind = "index"
          /\ out[Len(out) - 1].lines = entries

C2_Witness ==
    /\ bpc = "done" /\ Len(entries) = 2
    /\ calls[1].stored = "plain" /\ entries[1].length = 0
    /\ Arrays[1].lines = <<>>
    /\ calls[2].stored = "gzip" /\ entries[2].length = 31
    /\ Len(Arrays[2].lines) = 2

(* C3: every file with a recognised extension, whichever policy it takes,    *)
(* adds exactly one declaration to the output and one entry to the index, so *)
(* that the finished index lists the emitted declarations one by one in      *)
(* directory order.                                                           *)
C3_OneDeclarationOneEntry ==
    AllReadable =>
        /\ Len(Declarations) = Len(TakenUpRecognised)
        /\ Len(entries) = Len(TakenUpRecognised)
        /\ \A i \in 1..Len(entries) : entries[i].filename = TakenUpRecognised[i].name
        /\ bpc = "done" => out[Len(out) - 1].lines = entries

Bootstrap == <<"b", "o", "o", "t", "s", "t", "r", "a", "p">>
Popper == <<"p", "o", "p", "p", "e", "r">>
JQuery == <<"j", "q", "u", "e", "r", "y">>

(* the policy table of the bundler, with the prefixes that send a .css file  *)
(* to the license and source-map stripping                                    *)
TablePolicy(name, cssPrefixes) ==
    CASE HasSuffix(name, {<<".", "h", "t", "m", "l">>}) -> "process_html_file"
      [] HasSuffix(name, {<<".", "j", "s">>}) /\ HasPrefix(name, {JQuery}) ->
            "process_jquery_file"
      [] HasSuffix(name, {<<".", "j", "s">>}) /\ ~HasPrefix(name, {JQuery})
         /\ HasPrefix(name, {Bootstrap, Popper}) -> "process_copyright_mapping_file"
      [] HasSuffix(name, {<<".", "j", "s">>})
         /\ ~HasPrefix(name, {JQuery, Bootstrap, Popper}) -> "process_misc_file"
      [] HasSuffix(name, {<<".", "c", "s", "s">>}) /\ HasPrefix(name, cssPrefixes) ->
            "process_copyright_mapping_file"
      [] HasSuffix(name, {<<".", "c", "s", "s">>}) /\ ~HasPrefix(name, cssPrefixes) ->
            "process_css_file"
      [] HasSuffix(name, {<<".", "i", "c", "o">>, <<".", "j", "p", "g">>}) -> "binary_to_c_array"
      [] OTHER -> "none"

(* the table stores every policy compressed but the markup and default CSS ones *)
TableCompressed(fn) == fn \notin {"process_html_file", "process_css_file"}

DispatchedBy(cssPrefixes) ==
    /\ Len(calls) = Len(TakenUpRecognised)
    /\ \A k \in 1..Len(calls) :
          LET file == TakenUpRecognised[k]
          IN  /\ calls[k].filename = file.name
              /\ calls[k].fn = TablePolicy(file.name, cssPrefixes)
              /\ file.readable =>
                    (calls[k].stored = "gzip") = TableCompressed(calls[k].fn)
    /\ Len(Declarations) = Cardinality({k \in 1..Len(calls) : calls[k].stored # "none"})
    /\ Len(entries) = Len(Declarations)

Raises(file) ==
    /\ Dispatch(file.name) # "none"
    /\ Outcome[file][0].raised

(* C5: an error on one file aborts the run: no later file is taken up and    *)
(* neither the index table nor the accessor routines are written.            *)
C5_FailFast ==
    \A k \in 1..pos :
        Raises(files[k]) =>
            /\ bpc = "aborted"
            /\ pos = k
            /\ \A i \in 1..Len(out) : out[i].kind \notin {"index", "accessors"}

C5_Witness ==
    /\ bpc = "aborted" /\ pos = 1 /\ Len(files) = 2
    /\ ~files[1].readable /\ files[2].readable /\ ~Raises(files[2])
    /\ out = <<Prologue>> /\ entries = <<>> /\ bruns = 2

Sanitized(name, symbol) ==
    /\ Len(symbol) = Len(name)
    /\ \A i \in 1..Len(name) :
          symbol[i] = (IF name[i] = "." \/ name[i] = "-" THEN "_" ELSE name[i])

Stores(file) == Recognised(file) /\ ~Raises(file)

(* C13: the symbol of a stored payload is its filename with every '.' and   *)
(* '-' replaced by '_'; every stored file gets its own declaration and its   *)
(* own index entry under that symbol, also when another file of the run has  *)
(* the same symbol: a collision never aborts the run (only a file whose      *)
(* processing raises does) and the finished index lists both entries.        *)
C13_SymbolNoCollisionCheck ==
    LET stored == SelectSeq(TakenUp, Stores)
        arrays == Arrays
    IN  /\ Len(entries) = Len(stored) /\ Len(arrays) = Len(stored)
        /\ \A i \in 1..Len(stored) :
              /\ entries[i].filename = stored[i].name
              /\ Sanitized(stored[i].name, entries[i].symbol)
              /\ arrays[i].symbol = entries[i].symbol
        /\ bpc = "aborted" => (pos >= 1 /\ Raises(files[pos]))
        /\ bpc = "done" => out[Len(out) - 1].lines = entries

C13_Witness ==
    /\ bpc = "done" /\ Len(entries) = 2
    /\ entries[1].filename = <<"a", "-", "b", ".", "j", "s">>
    /\ entries[2].filename = <<"a", "_", "b", ".", "j", "s">>
    /\ entries[1].symbol = <<"a", "_", "b", "_", "j", "s">>
    /\ entries[2].symbol = entries[1].symbol
    /\ Arrays[1].symbol = Arrays[2].symbol /\ Arrays[1].lines # Arrays[2].lines
    /\ out[Len(out) - 1].lines = entries

(* C10: two runs over an unchanged directory write the same header: the same *)
(* declarations with the same payload bytes and the same index entries,      *)
(* whenever each run happens.                                                 *)
C10_SameOutputTwice ==
    (bruns = 2 /\ bpc = "done" /\ Len(prev) = 1 /\ prev[1].done) =>
        out = prev[1].out

----------------------------------------------------------------------------
(* Build-info generator: properties *)

(* the environment names that contain "production", whatever the case *)
NamedProduction == built.defines.BUILD_ENVIRONMENT \in {<<"p", "r", "o", "d", "u", "c", "t", "i", "o", "n">>, <<"P", "r", "o", "d", "u", "c", "t", "i", "o", "n", "-", "D", "e", "b", "u", "g">>}

(* C14 as stated: every invocation, whatever the environment name, reads    *)
(* the daily build counter file and rewrites it exactly once.               *)
C14_EveryInvocationRewrites ==
    built.done => (built.loads = 1 /\ built.saves = 1)

(* C14, amended: an invocation whose environment name does not contain      *)
(* "production" reads the counter file once and rewrites it once (when the  *)
(* file cannot be opened for writing it is left as it was); an invocation   *)
(* for a production environment neither reads nor writes it; the file       *)
(* changes only by a non-production invocation's save, which stores that    *)
(* invocation's build number.                                               *)
C14_RewritesUnlessProduction ==
    /\ [](built.done =>
            IF NamedProduction
            THEN built.loads = 0 /\ built.saves = 0 /\ ~built.saved
            ELSE built.loads = 1 /\ built.saves = 1)
    /\ [][counter_file' # counter_file =>
            /\ built'.saved /\ ~NamedProduction'
            /\ counter_file'.kind = "json"
            /\ counter_file'.last_build = built'.defines.BUILD_NUMBER]_vars

C14_Witness ==
    /\ built.done /\ built.defines.BUILD_ENVIRONMENT = <<"P", "r", "o", "d", "u", "c", "t", "i", "o", "n", "-", "D", "e", "b", "u", "g">>
    /\ built.loads = 0 /\ built.saves = 0
    /\ built.defines.BUILD_NUMBER = <<"2", "5", "0", "8", "1", "5", "0">>
    /\ counter_file.kind = "json" /\ counter_file.last_build = <<"2", "5", "0", "8", "1", "6", "1">>

IsDigit(c) == c \in {Digits[i] : i \in 1..Len(Digits)}

(* C15: the stored daily counter is always within 0..9; a non-production    *)
(* build on a date the counter file does not carry gets 0, one on the date   *)
(* it carries gets the stored counter plus one, capped at 9; the build       *)
(* number is the six-digit date followed by that one counter digit.          *)
C15_DailyCounter ==
    /\ [](counter_file.kind = "json" =>
            /\ counter_file.daily_counter \in 0..9
            /\ Len(counter_file.last_date) = 6
            /\ counter_file.last_build
                 = counter_file.last_date \o <<Digits[counter_file.daily_counter + 1]>>)
    /\ []((built.done /\ ~NamedProduction) =>
            /\ Len(built.defines.BUILD_NUMBER) = 7
            /\ \A i \in 1..7 : IsDigit(built.defines.BUILD_NUMBER[i])
            /\ SubSeq(built.defines.BUILD_NUMBER, 1, 6) = built.date_part
            /\ built.defines.DAILY_BUILD_COUNT = <<built.defines.BUILD_NUMBER[7]>>)
    /\ [][(built'.done /\ ~NamedProduction'
           /\ (built' # built \/ counter_file' # counter_file)) =>
            /\ built'.date_part = strftime_ymd(day)
            /\ built'.defines.DAILY_BUILD_COUNT =
                 (IF counter_file.kind = "json" /\ counter_file.last_date = built'.date_part
                  THEN IF counter_file.daily_counter + 1 > 9 THEN <<"9">>
                       ELSE <<Digits[counter_file.daily_counter + 2]>>
                  ELSE <<"0">>)]_vars

C15_Witness ==
    /\ built.done /\ ~NamedProduction /\ built.limit_warning /\ built.saved
    /\ built.defines.BUILD_NUMBER = <<"2", "5", "0", "8", "1", "6", "9">>
    /\ counter_file.kind = "json" /\ counter_file.daily_counter = 9
    /\ counter_file.last_date = <<"2", "5", "0", "8", "1", "6">>

DefineOf(name) ==
    LET i == CHOOSE i \in 1..Len(config_h.lines) : config_h.lines[i].name = name
    IN  config_h.lines[i].value

(* C16: whenever an invocation has rewritten config.h, its BUILD_TYPE is the *)
(* build type of that invocation's environment name, as its BUILD_DATE and   *)
(* FIRMWARE_VERSION are that invocation's build number and version.          *)
C16_ConfigFollowsInvocation ==
    built.config_written =>
        /\ DefineOf("BUILD_TYPE") = built.defines.BUILD_TYPE
        /\ DefineOf("BUILD_DATE") = built.defines.BUILD_NUMBER
        /\ DefineOf("FIRMWARE_VERSION") = built.defines.FIRMWARE_VERSION

----------------------------------------------------------------------------
(* Splash-screen generator: properties *)

(* a step that is a run of the generator: something changes, but no PNG    *)
(* does and no time passes                                                   *)
GeneratorRuns == vars' # vars /\ pngs' = pngs /\ clock' = clock

(* the header says it was generated from `png` for exactly `display_type`,   *)
(* and the PNG file is not newer than it                                     *)
HeaderIsCurrent(display_type, png) ==
    /\ disk.present
    /\ disk.source = png
    /\ disk.display_type = display_type
    /\ pngs[display_type].mtime <= header_mtime

(* C17: a run skips regeneration only when the header records the PNG       *)
(* selected for the detected display type and exactly that display type and  *)
(* the PNG is not newer than the header; in every other case (the PNG being  *)
(* there) the converter is invoked; so a run that returns normally leaves a  *)
(* header for the detected display type.                                     *)
C17_SkipOnlyWhenCurrent ==
    [][GeneratorRuns =>
        LET display_type == srun'.display_type
        IN  /\ srun'.outcome = "skipped" =>
                  (HeaderIsCurrent(display_type, srun'.png) /\ disk' = disk)
            /\ (pngs[display_type].exists /\ ~HeaderIsCurrent(display_type, srun'.png)) =>
                  srun'.invoked
            /\ srun'.outcome \in {"skipped", "converted"} =>
                  (disk'.present /\ disk'.display_type = display_type)]_vars

----------------------------------------------------------------------------
(* CSS comment stripping: properties *)

HasComment(s) ==
    \E i, j \in 1..Len(s) :
        /\ j >= i + 2 /\ j < Len(s)
        /\ s[i] = "/" /\ s[i + 1] = "*" /\ s[j] = "*" /\ s[j + 1] = "/"

(* positions of the text inside the comments the substitution removes *)
RECURSIVE RemovedFrom(_, _)
RemovedFrom(s, i) ==
    LET m == FirstComment(s, i)
    IN  IF m[1] = 0 THEN {} ELSE (m[1]..m[2]) \cup RemovedFrom(s, m[2] + 1)

(* a removal brings a "/" before it next to a "*" after it *)
Splices(s) ==
    LET gone == RemovedFrom(s, 1)
    IN  \E p, q \in 1..Len(s) :
            /\ p + 1 < q /\ p \notin gone /\ q \notin gone
            /\ \A k \in (p + 1)..(q - 1) : k \in gone
            /\ s[p] = "/" /\ s[q] = "*"

(* C9 as stated: for every text, stripping twice gives what stripping once   *)
(* gives, and a text without a comment is returned unchanged.                *)
C9_Idempotent ==
    css.done =>
        /\ css.twice = css.once
        /\ ~HasComment(css.text) => css.once = css.text

(* C9, amended: a text without a comment is returned unchanged, and          *)
(* stripping twice gives what stripping once gives for every text in which   *)
(* no removed comment (or run of adjacent removed comments) stands between a *)
(* "/" and a "*".                                                             *)
C9_IdempotentUnlessSpliced ==
    css.done =>
        /\ ~Splices(css.text) => css.twice = css.once
        /\ ~HasComment(css.text) => css.once = css.text

C9_Witness ==
    /\ css.done
    /\ css.text = <<"/", "*", "/", "*", "*", "/", "a">>
    /\ css.once = <<"a">> /\ css.twice = <<"a">>

=============================================================================
